---- MODULE Spec2Model ----
(***************************************************************************)
(* Model of app.py: the /predict upload pipeline, the predictions table    *)
(* (insert_prediction / query_recent) and the /api/recent endpoint.        *)
(*                                                                         *)
(* Requests are served by concurrent handler threads.  One /predict call   *)
(* is a sequence of steps, one per access to shared state (the upload      *)
(* directory, the clock, the database); the steps of different calls       *)
(* interleave freely.                                                      *)
(*                                                                         *)
(* Representation.  A file name or a patient name is the sequence of the   *)
(* code points of its characters, each at most 255 (<<97, 46, 112, 110,    *)
(* 103>> is "a.png"); a message or an exception text is one atom, a        *)
(* concatenation the sequence of its parts.  A float is an integer count   *)
(* of units of 1/ONE, ONE a power of two, so every value is one a binary   *)
(* float holds exactly; a rounded value is an integer in units of the last *)
(* decimal kept (0.01 for confidence_pct, 1e-4 s for inference_time).  The *)
(* clock counts microseconds, UsecPerSec of them to the second and         *)
(* SecPerDay seconds to the day.                                           *)
(***************************************************************************)
EXTENDS Integers, Sequences, FiniteSets, TLC

VARIABLES clock, modelLoaded, uploads, table, nextId, rq, recent

vars == <<clock, modelLoaded, uploads, table, nextId, rq, recent>>

-----------------------------------------------------------------------------
(* Bounds of the model *)

NumReq == 2
MaxTick == 4
UsecPerSec == 2
SecPerDay == 2
MaxN == 2

Req == 1..NumReq

-----------------------------------------------------------------------------
(* Configuration and inputs *)

\* the strings "png" and "webp"
PNG == <<112, 110, 103>>
WEBP == <<119, 101, 98, 112>>

\* {"png", "jpg", "jpeg", "gif", "webp"}
ALLOWED_EXT ==
    { PNG, <<106, 112, 103>>, <<106, 112, 101, 103>>, <<103, 105, 102>>, WEBP }

\* file.filename values sent by clients
FileNames ==
    { <<>>,
      <<97, 46, 112, 110, 103>>,             \* "a.png"
      <<97, 46, 119, 101, 98, 112>>,       \* "a.webp"
      <<97, 46, 87, 101, 98, 80>>,         \* "a.WebP"
      <<46, 119, 101, 98, 112>>,           \* ".webp"
      <<97, 46, 101, 120, 101>> }            \* "a.exe"

\* request.form["patient_name"] values sent by clients (absent = "")
FormNames ==
    { <<>>,
      <<32, 11, 160>>,                    \* " \x0b\xa0"
      <<9, 74, 97, 110, 101, 31>> }       \* "\tJane\x1f"

\* (Accept, X-Requested-With) header pairs sent by clients
Headers ==
    { [accept |-> <<"text/html">>, xrw |-> ""],
      [accept |-> <<"text/html", ",", "application/json">>, xrw |-> ""],
      [accept |-> <<>>, xrw |-> "XMLHttpRequest"] }

\* the float 1.0 and the float 0.5, in units of 1/ONE
ONE == 1024
THRESHOLD == 512

\* model.predict outputs for the images clients upload (0, 0.5, 0.5 + 1/1024,
\* 0.90625, 1.0 and 1.171875); the last lies outside [0,1], which nothing in
\* the code excludes
ModelProbs == {0, 512, 513, 928, 1024, 1200}

\* random.uniform(0.75, 0.95) outputs (0.7509765625 and 0.90625)
DemoProbs == {769, 928}

\* wall-clock durations t1 - t0 of the inference call, in units of 1/ONE s
\* (0.03125 s)
Elapsed == {32}

\* str(e) of the exceptions the environment raises
SaveErrors == {"cannot open file", "stream broke"}
ConversionErrors == {"cannot identify image file"}
InferenceErrors == {"predict blew up"}

-----------------------------------------------------------------------------
(* String helpers *)

\* the code points of ".", "_", "-", "/" and " "
DOT == 46
UNDERSCORE == 95
HYPHEN == 45
SLASH == 47
BLANK == 32

\* the characters c <= 255 with c.lower() # c: A-Z and the capital letters of
\* Latin-1, each 32 below its lower-case letter
Uppercase == (65..90) \cup (192..214) \cup (216..222)

\* the characters str.strip() and str.split() treat as white space
\* (str.isspace)
Whitespace ==
    (9..13) \cup (28..32) \cup {133, 160, 5760} \cup (8192..8202) \cup
    {8232, 8233, 8239, 8287, 12288}

\* str.lower(), one character
LowerChar(c) == IF c \in Uppercase THEN c + 32 ELSE c

\* str.lower()
Lower(s) == [i \in 1..Len(s) |-> LowerChar(s[i])]

\* position of the last "." of s, 0 when s has none
LastDot(s) ==
    LET dots == {i \in 1..Len(s) : s[i] = DOT}
    IN  IF dots = {} THEN 0 ELSE CHOOSE i \in dots : \A j \in dots : j <= i

\* filename.rsplit(".", 1)[-1].lower() if "." in filename else ""
Ext(s) ==
    IF LastDot(s) = 0 THEN <<>>
    ELSE Lower(SubSeq(s, LastDot(s) + 1, Len(s)))

allowed_file(filename) == Ext(filename) \in ALLOWED_EXT

RECURSIVE LStrip(_, _)
LStrip(s, chars) ==
    IF s # <<>> /\ Head(s) \in chars THEN LStrip(Tail(s), chars) ELSE s

RECURSIVE RStrip(_, _)
RStrip(s, chars) ==
    IF s # <<>> /\ s[Len(s)] \in chars
    THEN RStrip(SubSeq(s, 1, Len(s) - 1), chars) ELSE s

\* str.strip()
Strip(s) == RStrip(LStrip(s, Whitespace), Whitespace)

\* "_".join(s.split()) of a string without leading white space: each run of
\* white space inside s becomes one "_", a trailing run is dropped
RECURSIVE JoinWords(_)
JoinWords(s) ==
    IF s = <<>> THEN <<>>
    ELSE IF Head(s) \in Whitespace
         THEN IF LStrip(s, Whitespace) = <<>> THEN <<>>
              ELSE <<UNDERSCORE>> \o JoinWords(LStrip(s, Whitespace))
         ELSE <<Head(s)>> \o JoinWords(Tail(s))

\* the characters the pattern [^A-Za-z0-9_.-] leaves in place
SafeChars ==
    (65..90) \cup (97..122) \cup (48..57) \cup {UNDERSCORE, DOT, HYPHEN}

\* unicodedata.normalize("NFKD", c).encode("ascii", "ignore") of the
\* characters 128..255, in their order: the ASCII characters of the
\* decomposition
NfkdAscii ==
    << <<>>, <<>>, <<>>, <<>>, <<>>, <<>>, <<>>, <<>>,
       <<>>, <<>>, <<>>, <<>>, <<>>, <<>>, <<>>, <<>>,
       <<>>, <<>>, <<>>, <<>>, <<>>, <<>>, <<>>, <<>>,
       <<>>, <<>>, <<>>, <<>>, <<>>, <<>>, <<>>, <<>>,
       <<32>>, <<>>, <<>>, <<>>, <<>>, <<>>, <<>>, <<>>,
       <<32>>, <<>>, <<97>>, <<>>, <<>>, <<>>, <<>>, <<32>>,
       <<>>, <<>>, <<50>>, <<51>>, <<32>>, <<>>, <<>>, <<>>,
       <<32>>, <<49>>, <<111>>, <<>>, <<49, 52>>, <<49, 50>>, <<51, 52>>, <<>>,
       <<65>>, <<65>>, <<65>>, <<65>>, <<65>>, <<65>>, <<>>, <<67>>,
       <<69>>, <<69>>, <<69>>, <<69>>, <<73>>, <<73>>, <<73>>, <<73>>,
       <<>>, <<78>>, <<79>>, <<79>>, <<79>>, <<79>>, <<79>>, <<>>,
       <<>>, <<85>>, <<85>>, <<85>>, <<85>>, <<89>>, <<>>, <<>>,
       <<97>>, <<97>>, <<97>>, <<97>>, <<97>>, <<97>>, <<>>, <<99>>,
       <<101>>, <<101>>, <<101>>, <<101>>, <<105>>, <<105>>, <<105>>, <<105>>,
       <<>>, <<110>>, <<111>>, <<111>>, <<111>>, <<111>>, <<111>>, <<>>,
       <<>>, <<117>>, <<117>>, <<117>>, <<117>>, <<121>>, <<>>, <<121>> >>

\* normalize("NFKD", s).encode("ascii", "ignore").decode("ascii")
RECURSIVE AsciiFold(_)
AsciiFold(s) ==
    IF s = <<>> THEN <<>>
    ELSE (IF Head(s) < 128 THEN <<Head(s)>> ELSE NfkdAscii[Head(s) - 127])
         \o AsciiFold(Tail(s))

\* werkzeug secure_filename (POSIX): the name is folded to ASCII, the path
\* separator becomes a blank, the words are joined by "_", the characters
\* outside [A-Za-z0-9_.-] are dropped, leading and trailing "." and "_" are
\* stripped
secure_filename(s) ==
    LET folded  == AsciiFold(s)
        blanked == [i \in 1..Len(folded) |->
                       IF folded[i] = SLASH THEN BLANK ELSE folded[i]]
        joined  == JoinWords(LStrip(blanked, Whitespace))
        kept    == SelectSeq(joined, LAMBDA c : c \in SafeChars)
    IN  RStrip(LStrip(kept, {DOT, UNDERSCORE}), {DOT, UNDERSCORE})

request_wants_json(h) ==
    \/ \E i \in 1..Len(h.accept) : h.accept[i] = "application/json"
    \/ h.xrw = "XMLHttpRequest"

-----------------------------------------------------------------------------
(* Time *)

\* datetime.now().strftime("%Y%m%d%H%M%S%f"): the second, then the microsecond
TsFormat(c) == <<c \div UsecPerSec, c % UsecPerSec>>

\* f"A{datetime.now().strftime('%y%m%d%H%M%S')}": the second only
ScanIdFormat(c) == <<"A", c \div UsecPerSec>>

\* the value CURRENT_TIMESTAMP / datetime.utcnow() leaves in a TIMESTAMP column
DbTimestamp(c) == c \div UsecPerSec

\* datetime.now().strftime("%B %d, %Y"): the day
DateFormat(c) == <<"day", (c \div UsecPerSec) \div SecPerDay>>

\* f"{ts}_{filename}"
SavedName(ts, filename) == [ts |-> ts, name |-> <<UNDERSCORE>> \o filename]

\* saved_name.rsplit(".", 1)[0] + ".png"
PngName(saved) ==
    [ts |-> saved.ts,
     name |-> (IF LastDot(saved.name) = 0 THEN saved.name
               ELSE SubSeq(saved.name, 1, LastDot(saved.name) - 1))
              \o <<DOT>> \o PNG]

\* f"/static/uploads/{saved_name}"
ImagePath(saved) == [dir |-> "/static/uploads/", file |-> saved]

-----------------------------------------------------------------------------
(* Label mapping *)

RECURSIVE Pow10(_)
Pow10(n) == IF n = 0 THEN 1 ELSE 10 * Pow10(n - 1)

\* round(x, ndigits) of the float x / ONE, in units of 10^-ndigits: the
\* float is its exact binary value, which round() takes to the nearest
\* multiple of 10^-ndigits, an exact tie to the even one
Round(x, ndigits) ==
    LET num == x * Pow10(ndigits)
        q   == num \div ONE
        m   == num % ONE
    IN  IF 2 * m > ONE \/ (2 * m = ONE /\ q % 2 = 1) THEN q + 1 ELSE q

\* faulty variant: the threshold itself counts as Normal
LabelAtLeastHalf(prob) == IF prob >= THRESHOLD THEN "Normal" ELSE "Fractured"

\* label = "Normal" if prob > 0.5 else "Fractured"
Label(prob) == IF prob > THRESHOLD THEN "Normal" ELSE "Fractured"

Confidence(prob) == IF Label(prob) = "Normal" THEN prob ELSE ONE - prob

\* round(confidence * 100.0, 2), in units of 0.01
ConfidencePct(conf) == Round(conf * 100, 2)

\* round(t1 - t0, 4), in units of 1e-4 s
InferenceTime(dt) == Round(dt, 4)

-----------------------------------------------------------------------------
(* The predictions table *)

NoName == [ts |-> <<0, 0>>, name |-> <<>>]

\* faulty variant: scan_id without its unique index
NoUniqueConstraint(tbl, sid) == FALSE

\* column scan_id is declared unique=True: an INSERT of a present scan_id fails
UniqueViolation(tbl, sid) == \E row \in tbl : row.scan_id = sid

\* the None of one_or_none()
NoObj == [id |-> 0]

\* session.query(Prediction).filter_by(scan_id=scan_id).one_or_none():
\* the row found, NoObj for None
Lookup(tbl, sid) ==
    IF \E row \in tbl : row.scan_id = sid
    THEN CHOOSE row \in tbl : row.scan_id = sid
    ELSE NoObj

\* the row of the INSERT; timestamp is left to the server default
\* CURRENT_TIMESTAMP, evaluated at time now
NewRow(id, a, now) ==
    [id |-> id, scan_id |-> a.scan_id, patient_name |-> a.patient_name,
     label |-> a.label, confidence |-> a.confidence,
     inference_time |-> a.inference_time, image_path |-> a.image_path,
     timestamp |-> DbTimestamp(now), true_label |-> "NULL"]

\* obj.timestamp = datetime.utcnow() differs from the loaded value, which
\* has whole seconds
TimestampChanged(obj, stamp) ==
    ~(DbTimestamp(stamp) = obj.timestamp /\ stamp % UsecPerSec = 0)

\* the UPDATE flushed at commit for the loaded object obj, whose attributes
\* were set to the arguments a and to the time stamp: it sets the columns
\* whose value differs from the loaded one and leaves the others as the row
\* now has them
UpdateRow(tbl, obj, a, stamp) ==
    {IF row.id = obj.id
        THEN [row EXCEPT
                !.patient_name = IF a.patient_name # obj.patient_name
                                 THEN a.patient_name ELSE @,
                !.label = IF a.label # obj.label THEN a.label ELSE @,
                !.confidence = IF a.confidence # obj.confidence
                               THEN a.confidence ELSE @,
                !.inference_time = IF a.inference_time # obj.inference_time
                                   THEN a.inference_time ELSE @,
                !.image_path = IF a.image_path # obj.image_path
                               THEN a.image_path ELSE @,
                !.timestamp = IF TimestampChanged(obj, stamp)
                              THEN DbTimestamp(stamp) ELSE @]
        ELSE row : row \in tbl}

RECURSIVE OrderByIdDesc(_)
OrderByIdDesc(tbl) ==
    IF tbl = {} THEN <<>>
    ELSE LET top == CHOOSE row \in tbl : \A o \in tbl : o.id <= row.id
         IN  <<top>> \o OrderByIdDesc(tbl \ {top})

RecentView(r) ==
    [scan_id |-> r.scan_id, patient_name |-> r.patient_name, label |-> r.label,
     confidence |-> r.confidence, inference_time |-> r.inference_time,
     image_path |-> r.image_path, timestamp |-> r.timestamp]

\* query_recent(limit): ORDER BY id DESC LIMIT limit; MySQL rejects a
\* negative LIMIT and the query raises
query_recent(tbl, limit) ==
    IF limit < 0 THEN [raised |-> TRUE, rows |-> <<>>]
    ELSE LET all == OrderByIdDesc(tbl)
             k == IF limit < Len(all) THEN limit ELSE Len(all)
         IN  [raised |-> FALSE, rows |-> [i \in 1..k |-> RecentView(all[i])]]

-----------------------------------------------------------------------------
(* Responses of /predict *)

ErrorMessage(e) ==
    CASE e = "no_file"              -> "No file uploaded"
      [] e = "empty_filename"       -> "No file selected"
      [] e = "missing_patient_name" -> "Patient name is required."
      [] e = "disallowed_extension" -> "File type not allowed"
      [] e = "conversion"           -> "WEBP conversion failed"
      [] e = "inference"            -> "Prediction error"
      [] e = "unhandled"            -> "Unhandled server error"

\* the exits taken from an except clause, whose response carries str(e)
ExceptionExits == {"conversion", "inference", "unhandled"}

\* the status passed along with jsonify(...) on each error exit
ErrorStatus(e) == IF e \in {"inference", "unhandled"} THEN 500 ELSE 400

\* jsonify({"error": msg}) / jsonify({"error": msg, "details": str(e)})
JsonError(e, exc) ==
    IF e \in ExceptionExits
    THEN [error |-> ErrorMessage(e), details |-> exc]
    ELSE [error |-> ErrorMessage(e)]

\* the error passed to dashboard.html: msg, or msg + ": " + str(e)
HtmlError(e, exc) ==
    IF e \in ExceptionExits
    THEN <<ErrorMessage(e), ": ", exc>>
    ELSE <<ErrorMessage(e)>>

DOCTOR_NOTE == "Please consult your physician if symptoms persist."

\* the value predict() returns on the exit for error class e ("none": the
\* result) at time now; a bare render_template(...) return value is sent
\* with status 200
PredictReturn(q, e, now) ==
    IF e # "none"
    THEN IF request_wants_json(q.headers)
         THEN [kind |-> "error", shape |-> "json", status |-> ErrorStatus(e),
               body |-> JsonError(e, q.exc)]
         ELSE [kind |-> "error", shape |-> "html", status |-> 200,
               body |-> [template |-> "dashboard.html",
                         error |-> HtmlError(e, q.exc)]]
    ELSE IF request_wants_json(q.headers)
         THEN [kind |-> "result", shape |-> "json", status |-> 200,
               body |-> [id |-> q.scan_id, label |-> q.label,
                         confidence |-> q.confidence,
                         confidence_pct |-> q.confidence_pct,
                         image_path |-> ImagePath(q.saved_name),
                         patient_name |-> q.patient_name,
                         inference_time |-> q.inference_time]]
         ELSE [kind |-> "result", shape |-> "html", status |-> 200,
               body |-> [template |-> "result.html", prediction |-> q.label,
                         accuracy |-> q.confidence_pct,
                         image_path |-> ImagePath(q.saved_name),
                         doctor_note |-> DOCTOR_NOTE,
                         current_date |-> DateFormat(now),
                         patient_name |-> q.patient_name]]

\* faulty variant: the exception of insert_prediction is not caught at the call and
\* reaches the outer handler
ResponseSurfacesDbError(q, now) ==
    PredictReturn(q, IF q.err = "none" /\ q.dberr # "none"
                     THEN "unhandled" ELSE q.err, now)

\* the response of a call in state q: the exception of insert_prediction is
\* logged and dropped, so q.dberr plays no part
Response(q, now) == PredictReturn(q, q.err, now)

-----------------------------------------------------------------------------
(* State *)

NoResp == [kind |-> "none"]

\* rq[r]: the request r and the locals of the predict() call serving it.
\* content is what predict_from_model will return for this call (the model's
\* output for the uploaded image, or the random draw of demo mode);
\* first_name is the name file.save created, converted whether the PNG was
\* written, exc the str(e) of the exception that ended the call, obj the
\* object insert_prediction loaded and stamp its datetime.utcnow().
IdleReq ==
    [pc |-> "idle", hasFile |-> FALSE, filename |-> <<>>, form_name |-> <<>>,
     headers |-> [accept |-> <<>>, xrw |-> ""], content |-> 0,
     patient_name |-> <<>>, saved_name |-> NoName, first_name |-> NoName,
     converted |-> FALSE, prob |-> 0, label |-> "", confidence |-> 0,
     confidence_pct |-> 0, inference_time |-> 0, scan_id |-> <<"A", 0>>,
     obj |-> NoObj, stamp |-> 0, err |-> "none", exc |-> "", dberr |-> "none", resp |-> NoResp]

NoRecent == [n |-> 0, status |-> 0, rows |-> <<>>]

Init ==
    /\ clock = 0
    /\ modelLoaded \in BOOLEAN
    /\ uploads = {}
    /\ table = {}
    /\ nextId = 1
    /\ rq = [r \in Req |-> IdleReq]
    /\ recent = NoRecent

Set(r, rec) == rq' = [rq EXCEPT ![r] = rec]

Fail(r, e) == Set(r, [rq[r] EXCEPT !.err = e, !.pc = "responding"])

\* the call leaves through the except clause of class e with exception text x
Raise(q, e, x) == [q EXCEPT !.err = e, !.exc = x, !.pc = "responding"]

-----------------------------------------------------------------------------
(* POST /predict, step by step *)

\* a client sends a request drawn from the given sets; requests are numbered
\* in their order of arrival
ArriveFrom(r, HF, FN, PN, HD, MP, DP) ==
    /\ rq[r].pc = "idle"
    /\ \A o \in Req : o < r => rq[o].pc # "idle"
    /\ \E hf \in HF, fn \in FN, pn \in PN, h \in HD,
          c \in (IF modelLoaded THEN MP ELSE DP) :
          /\ hf \/ fn = <<>>
          /\ Set(r, [rq[r] EXCEPT !.pc = "validating", !.hasFile = hf,
                                  !.filename = fn, !.form_name = pn,
                                  !.headers = h, !.content = c])
    /\ UNCHANGED <<clock, modelLoaded, uploads, table, nextId, recent>>

\* the four checks, in the order of the code
ValidationError(q) ==
    IF ~q.hasFile THEN "no_file"
    ELSE IF q.filename = <<>> THEN "empty_filename"
    ELSE IF Strip(q.form_name) = <<>> THEN "missing_patient_name"
    ELSE IF ~allowed_file(q.filename) THEN "disallowed_extension"
    ELSE "none"

\* faulty variant: the file is saved before the checks
ValidateAfterSave(r) ==
    /\ rq[r].pc = "validating"
    /\ uploads' = uploads \cup
          {SavedName(TsFormat(clock), secure_filename(rq[r].filename))}
    /\ IF ValidationError(rq[r]) # "none"
       THEN Fail(r, ValidationError(rq[r]))
       ELSE Set(r, [rq[r] EXCEPT !.patient_name = Strip(rq[r].form_name),
                                 !.pc = "saving"])
    /\ UNCHANGED <<clock, modelLoaded, table, nextId, recent>>

Validate(r) ==
    /\ rq[r].pc = "validating"
    /\ IF ValidationError(rq[r]) # "none"
       THEN Fail(r, ValidationError(rq[r]))
       ELSE Set(r, [rq[r] EXCEPT !.patient_name = Strip(rq[r].form_name),
                                 !.pc = "saving"])
    /\ UNCHANGED <<clock, modelLoaded, uploads, table, nextId, recent>>

\* secure_filename, the timestamped name, file.save(filepath)
Save(r) ==
    /\ rq[r].pc = "saving"
    /\ LET filename == secure_filename(rq[r].filename)
           saved    == SavedName(TsFormat(clock), filename)
           named    == [rq[r] EXCEPT !.saved_name = saved]
       IN  \/ /\ uploads' = uploads \cup {saved}
              /\ Set(r, [named EXCEPT !.first_name = saved,
                            !.pc = IF Ext(filename) = WEBP
                                   THEN "normalizing" ELSE "inferring"])
           \/ \* file.save cannot open the destination: nothing is written,
              \* the outer handler answers
              /\ \E x \in SaveErrors : Set(r, Raise(named, "unhandled", x))
              /\ UNCHANGED uploads
           \/ \* file.save raises while copying: the file it opened stays,
              \* the outer handler answers
              /\ uploads' = uploads \cup {saved}
              /\ \E x \in SaveErrors :
                    Set(r, Raise([named EXCEPT !.first_name = saved],
                                 "unhandled", x))
    /\ UNCHANGED <<clock, modelLoaded, table, nextId, recent>>

\* faulty variant: a failed conversion is logged and the call goes on to inference
NormalizeContinuesAfterFailure(r) ==
    /\ rq[r].pc = "normalizing"
    /\ \/ /\ rq[r].saved_name \in uploads
          /\ uploads' = uploads \cup {PngName(rq[r].saved_name)}
          /\ Set(r, [rq[r] EXCEPT !.converted = TRUE, !.pc = "removing"])
       \/ /\ \E x \in ConversionErrors :
                Set(r, [rq[r] EXCEPT !.err = "conversion", !.exc = x,
                                     !.pc = "inferring"])
          /\ UNCHANGED uploads
    /\ UNCHANGED <<clock, modelLoaded, table, nextId, recent>>

\* Image.open(filepath).convert("RGB"); im.save(new_path, "PNG")
Normalize(r) ==
    /\ rq[r].pc = "normalizing"
    /\ \/ /\ rq[r].saved_name \in uploads
          /\ uploads' = uploads \cup {PngName(rq[r].saved_name)}
          /\ Set(r, [rq[r] EXCEPT !.converted = TRUE, !.pc = "removing"])
       \/ \* the file is gone or cannot be decoded, or the PNG cannot be written
          /\ \E x \in ConversionErrors : Set(r, Raise(rq[r], "conversion", x))
          /\ UNCHANGED uploads
    /\ UNCHANGED <<clock, modelLoaded, table, nextId, recent>>

\* os.remove(filepath), any exception swallowed; then the names switch to the PNG
RemoveOriginal(r) ==
    /\ rq[r].pc = "removing"
    /\ \/ uploads' = uploads \ {rq[r].saved_name}
       \/ UNCHANGED uploads
    /\ Set(r, [rq[r] EXCEPT !.saved_name = PngName(rq[r].saved_name),
                            !.pc = "inferring"])
    /\ UNCHANGED <<clock, modelLoaded, table, nextId, recent>>

\* preprocess_image + predict_from_model, the label mapping and the scan id
Infer(r) ==
    /\ rq[r].pc = "inferring"
    /\ \/ \E p \in {rq[r].content}, dt \in Elapsed :
             Set(r, [rq[r] EXCEPT !.prob = p, !.label = Label(p),
                        !.confidence = Confidence(p),
                        !.confidence_pct = ConfidencePct(Confidence(p)),
                        !.inference_time = InferenceTime(dt),
                        !.scan_id = ScanIdFormat(clock),
                        !.pc = "persisting"])
       \/ \* preprocess_image or model.predict raises
          /\ modelLoaded
          /\ \E x \in InferenceErrors : Set(r, Raise(rq[r], "inference", x))
    /\ UNCHANGED <<clock, modelLoaded, uploads, table, nextId, recent>>

\* the arguments of insert_prediction at its call in predict()
InsertArgs(q) ==
    [scan_id |-> q.scan_id, patient_name |-> q.patient_name, label |-> q.label,
     confidence |-> q.confidence, inference_time |-> q.inference_time,
     image_path |-> ImagePath(q.saved_name)]

\* insert_prediction: the SELECT by scan_id
PersistLookup(r) ==
    /\ rq[r].pc = "persisting"
    /\ \/ Set(r, [rq[r] EXCEPT !.obj = Lookup(table, rq[r].scan_id),
                               !.pc = IF Lookup(table, rq[r].scan_id).id # 0
                                      THEN "stamping" ELSE "committing"])
       \/ \* SQLAlchemyError: rollback, re-raise; predict() logs and goes on
          Set(r, [rq[r] EXCEPT !.dberr = "OperationalError", !.pc = "responding"])
    /\ UNCHANGED <<clock, modelLoaded, uploads, table, nextId, recent>>

\* insert_prediction, object found: the attributes are set,
\* obj.timestamp = datetime.utcnow()
PersistStamp(r) ==
    /\ rq[r].pc = "stamping"
    /\ Set(r, [rq[r] EXCEPT !.stamp = clock, !.pc = "committing"])
    /\ UNCHANGED <<clock, modelLoaded, uploads, table, nextId, recent>>

\* insert_prediction: session.commit() flushes the UPDATE or the INSERT
PersistCommit(r) ==
    /\ rq[r].pc = "committing"
    /\ LET a == InsertArgs(rq[r])
       IN  \/ /\ rq[r].obj.id # 0
              /\ table' = UpdateRow(table, rq[r].obj, a, rq[r].stamp)
              /\ Set(r, [rq[r] EXCEPT !.pc = "responding"])
              /\ UNCHANGED nextId
           \/ /\ rq[r].obj.id = 0
              /\ ~UniqueViolation(table, a.scan_id)
              /\ table' = table \cup {NewRow(nextId, a, clock)}
              /\ nextId' = nextId + 1
              /\ Set(r, [rq[r] EXCEPT !.pc = "responding"])
           \/ \* duplicate key on the unique index: the INSERT has taken its
              \* auto-increment id; rollback, re-raise
              /\ rq[r].obj.id = 0
              /\ UniqueViolation(table, a.scan_id)
              /\ Set(r, [rq[r] EXCEPT !.dberr = "IntegrityError",
                                      !.pc = "responding"])
              /\ nextId' = nextId + 1
              /\ UNCHANGED table
           \/ \* any other SQLAlchemyError, before the statement or (INSERT)
              \* after it has taken its auto-increment id: rollback, re-raise
              /\ Set(r, [rq[r] EXCEPT !.dberr = "OperationalError",
                                      !.pc = "responding"])
              /\ \/ nextId' = nextId
                 \/ rq[r].obj.id = 0 /\ nextId' = nextId + 1
              /\ UNCHANGED table
    /\ UNCHANGED <<clock, modelLoaded, uploads, recent>>

Respond(r) ==
    /\ rq[r].pc = "responding"
    /\ Set(r, [rq[r] EXCEPT !.resp = Response(rq[r], clock), !.pc = "done"])
    /\ UNCHANGED <<clock, modelLoaded, uploads, table, nextId, recent>>

\* time passes
Tick ==
    /\ clock < MaxTick
    /\ clock' = clock + 1
    /\ UNCHANGED <<modelLoaded, uploads, table, nextId, rq, recent>>

-----------------------------------------------------------------------------
(* GET /api/recent?n=<int> *)

\* n = int(request.args.get("n", 10)); rows = query_recent(n); any exception
\* becomes the 500 response
ApiRecent ==
    /\ \E n \in (-1)..MaxN :
          LET res == query_recent(table, n)
          IN  recent' = IF res.raised
                        THEN [n |-> n, status |-> 500, rows |-> <<>>]
                        ELSE [n |-> n, status |-> 200, rows |-> res.rows]
    /\ UNCHANGED <<clock, modelLoaded, uploads, table, nextId, rq>>

-----------------------------------------------------------------------------
(* Spec: concurrent uploads.  NumReq handler threads, each serving one      *)
(* well-formed upload; their steps interleave.                              *)

\* "a.png" and "a.webp"
UploadNames == {<<97, 46, 112, 110, 103>>, <<97, 46, 119, 101, 98, 112>>}
UploadHeaders == {[accept |-> <<>>, xrw |-> "XMLHttpRequest"]}
\* " Jane "
UploadForms == {<<32, 74, 97, 110, 101, 32>>}
UploadModelProbs == {1024}
UploadDemoProbs == {769}

Arrive(r) ==
    ArriveFrom(r, {TRUE}, UploadNames, UploadForms, UploadHeaders,
               UploadModelProbs, UploadDemoProbs)

Next ==
    \/ \E r \in Req : Arrive(r)
    \/ \E r \in Req : Validate(r)
    \/ \E r \in Req : Save(r)
    \/ \E r \in Req : Normalize(r)
    \/ \E r \in Req : RemoveOriginal(r)
    \/ \E r \in Req : Infer(r)
    \/ \E r \in Req : PersistLookup(r)
    \/ \E r \in Req : PersistStamp(r)
    \/ \E r \in Req : PersistCommit(r)
    \/ \E r \in Req : Respond(r)
    \/ Tick

Spec == Init /\ [][Next]_vars

-----------------------------------------------------------------------------
(* SpecCall: one /predict call with any request, on a store that is empty   *)
(* or holds the upload and the row of an earlier call.                      *)

\* the upload "a.png" and the row of patient "Bob"
SeedName == SavedName(TsFormat(0), <<97, 46, 112, 110, 103>>)

SeedRow ==
    NewRow(1, [scan_id |-> ScanIdFormat(0), patient_name |-> <<66, 111, 98>>,
               label |-> Label(ONE), confidence |-> Confidence(ONE),
               inference_time |-> InferenceTime(32),
               image_path |-> ImagePath(SeedName)], 0)

InitCall ==
    /\ clock = 0
    /\ modelLoaded \in BOOLEAN
    /\ \/ uploads = {} /\ table = {} /\ nextId = 1
       \/ uploads = {SeedName} /\ table = {SeedRow} /\ nextId = 2
    /\ rq = [r \in Req |-> IdleReq]
    /\ recent = NoRecent

ArriveAny(r) ==
    /\ \A o \in Req : rq[o].pc = "idle"
    /\ ArriveFrom(r, BOOLEAN, FileNames, FormNames, Headers, ModelProbs, DemoProbs)

NextCall ==
    \/ \E r \in Req : ArriveAny(r)
    \/ \E r \in Req : Validate(r)
    \/ \E r \in Req : Save(r)
    \/ \E r \in Req : Normalize(r)
    \/ \E r \in Req : RemoveOriginal(r)
    \/ \E r \in Req : Infer(r)
    \/ \E r \in Req : PersistLookup(r)
    \/ \E r \in Req : PersistStamp(r)
    \/ \E r \in Req : PersistCommit(r)
    \/ \E r \in Req : Respond(r)
    \/ Tick

SpecCall == InitCall /\ [][NextCall]_vars

-----------------------------------------------------------------------------
(* SpecDb: concurrent calls of insert_prediction.  Each handler thread      *)
(* serves a valid upload of "a.png" for patient "Jane": it saves the file,  *)
(* runs the inference and calls insert_prediction.                          *)

\* lines 196-233 for a request that passes the four checks and whose
\* file.save succeeds: the clock is read for ts and the file is written
CallSave(r) ==
    /\ rq[r].pc = "idle"
    /\ \A o \in Req : o < r => rq[o].pc # "idle"
    /\ LET saved == SavedName(TsFormat(clock), <<97, 46, 112, 110, 103>>)
       IN  /\ uploads' = uploads \cup {saved}
           /\ \E p \in (IF modelLoaded THEN {0, ONE} ELSE DemoProbs) :
                 Set(r, [rq[r] EXCEPT !.hasFile = TRUE,
                            !.filename = <<97, 46, 112, 110, 103>>,
                            !.form_name = <<74, 97, 110, 101>>,
                            !.patient_name = <<74, 97, 110, 101>>,
                            !.headers = [accept |-> <<>>, xrw |-> "XMLHttpRequest"],
                            !.content = p,
                            !.saved_name = saved, !.first_name = saved,
                            !.pc = "inferring"])
    /\ UNCHANGED <<clock, modelLoaded, table, nextId, recent>>

NextDb ==
    \/ \E r \in Req : CallSave(r)
    \/ \E r \in Req : Infer(r)
    \/ \E r \in Req : PersistLookup(r)
    \/ \E r \in Req : PersistStamp(r)
    \/ \E r \in Req : PersistCommit(r)
    \/ Tick

SpecDb == Init /\ [][NextDb]_vars

-----------------------------------------------------------------------------
(* SpecRecent: /api/recent calls between the calls of insert_prediction *)

NextRecent ==
    \/ \E r \in Req : CallSave(r)
    \/ \E r \in Req : Infer(r)
    \/ \E r \in Req : PersistLookup(r)
    \/ \E r \in Req : PersistStamp(r)
    \/ \E r \in Req : PersistCommit(r)
    \/ Tick
    \/ ApiRecent

SpecRecent == Init /\ [][NextRecent]_vars

-----------------------------------------------------------------------------
(* Properties *)

ValidationErrors ==
    {"no_file", "empty_filename", "missing_patient_name", "disallowed_extension"}

Json(q) == request_wants_json(q.headers)

\* C1: every /predict call that ends in an error answers with the status of
\* its error class (400 for the validation and conversion failures, 500 for
\* inference and unhandled failures), in the JSON and in the HTML shape.
C1_ErrorStatusByClass ==
    \A r \in Req :
        (rq[r].pc = "done" /\ rq[r].err # "none") =>
            rq[r].resp.status =
                (IF rq[r].err \in ValidationErrors \cup {"conversion"}
                 THEN 400 ELSE 500)

\* C2: a write whose scan_id already has a row completes without a conflict
\* error, in every interleaving of insert_prediction calls.
C2_UpsertNeverConflicts ==
    \A r \in Req : rq[r].dberr # "IntegrityError"

\* C3: the predictions table holds at most one row per scan_id (and per id)
\* in every reachable state.
C3_OneRowPerScanId ==
    \A x \in table : \A y \in table :
        (x.scan_id = y.scan_id \/ x.id = y.id) => x = y

\* two calls with the same scan_id have both written, and one row holds it
C3_Witness ==
    \E r1 \in Req : \E r2 \in Req :
        /\ r1 # r2
        /\ rq[r1].pc = "responding" /\ rq[r2].pc = "responding"
        /\ rq[r1].dberr = "none" /\ rq[r2].dberr = "none"
        /\ rq[r1].scan_id = rq[r2].scan_id
        /\ Cardinality({x \in table : x.scan_id = rq[r1].scan_id}) = 1

\* the fields of a success response, compared with the locals of the call
SuccessResponseOf(q) ==
    /\ q.resp.kind = "result"
    /\ q.resp.status = 200
    /\ q.resp.body.image_path = ImagePath(q.saved_name)
    /\ q.resp.body.patient_name = q.patient_name
    /\ IF Json(q)
       THEN /\ q.resp.body.id = q.scan_id
            /\ q.resp.body.label = q.label
            /\ q.resp.body.confidence = q.confidence
       ELSE /\ q.resp.body.prediction = q.label
            /\ q.resp.body.accuracy = q.confidence_pct

\* C4: once validation, saving, normalization and inference have succeeded
\* the caller receives the success response built from the computed result
\* whether insert_prediction commits or raises; a step in which it raises
\* leaves the table unchanged, and the persistence steps leave the computed
\* result unchanged.
C4_PersistenceFailureKeepsResponse ==
    [][\A r \in Req :
          /\ (rq'[r].pc = "done" /\ rq'[r].err = "none")
                => SuccessResponseOf(rq'[r])
          /\ (rq[r].dberr = "none" /\ rq'[r].dberr # "none")
                => table' = table
          /\ rq[r].pc \in {"persisting", "stamping", "committing"}
                => /\ rq'[r].label = rq[r].label
                   /\ rq'[r].confidence = rq[r].confidence
                   /\ rq'[r].confidence_pct = rq[r].confidence_pct
                   /\ rq'[r].saved_name = rq[r].saved_name
                   /\ rq'[r].patient_name = rq[r].patient_name
                   /\ rq'[r].scan_id = rq[r].scan_id
                   /\ rq'[r].err = rq[r].err]_vars

\* a call whose write failed has answered with the result
C4_Witness ==
    \E r \in Req :
        /\ rq[r].pc = "done"
        /\ rq[r].err = "none"
        /\ rq[r].dberr # "none"
        /\ rq[r].resp.kind = "result"
        /\ rq[r].resp.status = 200

StageOrder ==
    { <<"idle", "validating">>,
      <<"validating", "saving">>, <<"validating", "responding">>,
      <<"saving", "normalizing">>, <<"saving", "inferring">>,
      <<"saving", "responding">>,
      <<"normalizing", "removing">>, <<"normalizing", "responding">>,
      <<"removing", "inferring">>,
      <<"inferring", "persisting">>, <<"inferring", "responding">>,
      <<"persisting", "stamping">>, <<"stamping", "committing">>,
      <<"persisting", "committing">>, <<"persisting", "responding">>,
      <<"committing", "responding">>,
      <<"responding", "done">> }

\* C5: a call moves through Validating, Saving, Normalizing (webp only),
\* Inferring, Persisting, Responding in that order; a stage that fails is
\* followed by Responding alone; the table is written only by the commit of
\* a call in which nothing has failed.
C5_StagesInOrder ==
    [][\A r \in Req :
          /\ rq'[r].pc # rq[r].pc => <<rq[r].pc, rq'[r].pc>> \in StageOrder
          /\ rq'[r].pc \in {"normalizing", "removing"}
                => Ext(rq'[r].filename) = WEBP
          /\ rq'[r].err # "none" => rq'[r].pc \in {"responding", "done"}
          /\ (rq[r].err # "none" /\ rq'[r] # rq[r])
                => UNCHANGED <<uploads, table, nextId>>
          /\ (rq'[r] # rq[r] /\ table' # table)
                => (rq[r].pc = "committing" /\ rq[r].err = "none")]_vars

\* a call whose conversion failed has answered, and the table is as the
\* initial store left it
C5_Witness ==
    \E r \in Req :
        /\ rq[r].pc = "done"
        /\ rq[r].err = "conversion"
        /\ rq[r].first_name # NoName
        /\ table \in {{}, {SeedRow}}

\* C6: a call that fails validation writes nothing: no step of the call
\* changes the upload directory or the predictions table.
C6_ValidationFailureWritesNothing ==
    [][\A r \in Req :
          (rq'[r] # rq[r] /\ rq'[r].err \in ValidationErrors)
              => UNCHANGED <<uploads, table, nextId>>]_vars

\* a call with a disallowed extension has answered with the error, and the
\* upload directory is as the initial store left it
C6_Witness ==
    \E r \in Req :
        /\ rq[r].pc = "done"
        /\ rq[r].err = "disallowed_extension"
        /\ rq[r].resp.kind = "error"
        /\ uploads \in {{}, {SeedName}}

\* the call serves an upload that passed validation and that file.save
\* stored without raising, and whose uploaded filename has the extension webp
WebpUpload(q) ==
    /\ q.hasFile
    /\ Ext(q.filename) = WEBP
    /\ q.err \notin ValidationErrors \cup {"unhandled"}
    /\ q.first_name # NoName

\* C7: once a call for a validated WEBP upload has responded, the upload
\* directory holds the converted .png of the upload and not the .webp that
\* was saved.
C7_AlwaysPngNoWebp ==
    \A r \in Req :
        (rq[r].pc = "done" /\ WebpUpload(rq[r])) =>
            /\ PngName(rq[r].first_name) \in uploads
            /\ rq[r].first_name \notin uploads

\* the names a call has written in the upload directory
Written(q) ==
    IF q.first_name = NoName THEN {}
    ELSE {q.first_name} \cup (IF q.converted THEN {PngName(q.first_name)} ELSE {})

\* C8: any two calls write distinct names in the upload directory.
C8_SavedNamesDistinct ==
    \A r1 \in Req : \A r2 \in Req :
        r1 # r2 => Written(rq[r1]) \cap Written(rq[r2]) = {}

\* the row of the table that holds the scan_id of call q
RowsOf(q) == {x \in table : x.scan_id = q.scan_id}

\* what C9 says of a call in state q once its result is computed
LabelRule(q) ==
    /\ q.label = (IF 2 * q.prob > ONE THEN "Normal" ELSE "Fractured")
    /\ q.confidence = (IF 2 * q.prob > ONE THEN q.prob ELSE ONE - q.prob)
    /\ q.confidence_pct \in 0..10000
    /\ 2 * (ONE * q.confidence_pct - 10000 * q.confidence) \in (-ONE)..ONE
    /\ q.pc = "done" =>
         IF Json(q)
         THEN /\ q.resp.body.label = q.label
              /\ q.resp.body.confidence = q.confidence
              /\ q.resp.body.confidence_pct = q.confidence_pct
         ELSE /\ q.resp.body.prediction = q.label
              /\ q.resp.body.accuracy = q.confidence_pct

\* C9: for a probability in [0,1] the label is "Normal" exactly when the
\* probability exceeds 0.5 and "Fractured" otherwise, the confidence is the
\* probability for Normal and 1 - probability for Fractured, confidence_pct
\* lies in [0, 100] and is the confidence in percent, the response carries
\* them, and the write of the call leaves that label and confidence in the
\* row of its scan_id.
C9_LabelAndConfidence ==
    [][\A r \in Req :
          /\ (rq'[r].pc \in {"persisting", "stamping", "committing",
                              "responding", "done"}
              /\ rq'[r].err = "none" /\ rq'[r].prob \in 0..ONE)
                => LabelRule(rq'[r])
          /\ (rq[r].pc = "committing" /\ rq'[r].pc = "responding"
              /\ rq'[r].dberr = "none" /\ rq[r].prob \in 0..ONE)
                => /\ \E x \in table' : x.scan_id = rq[r].scan_id
                   /\ \A x \in table' :
                         x.scan_id = rq[r].scan_id =>
                            /\ x.label =
                                 (IF 2 * rq[r].prob > ONE THEN "Normal"
                                                        ELSE "Fractured")
                            /\ x.confidence = rq[r].confidence]_vars

\* a call with probability exactly 0.5 was labelled and stored as Fractured
C9_Witness ==
    \E r \in Req :
        /\ rq[r].pc = "done"
        /\ rq[r].err = "none"
        /\ rq[r].dberr = "none"
        /\ 2 * rq[r].prob = ONE
        /\ rq[r].label = "Fractured"
        /\ \E x \in RowsOf(rq[r]) : x.label = "Fractured" /\ 2 * x.confidence = ONE

\* the primary key of the row a /api/recent entry was read from
IdOf(v) == (CHOOSE x \in table : x.scan_id = v.scan_id).id

\* C10: /api/recent answers any integer n, zero and negative included, with
\* the recent rows: at most as many as n sanitized to a positive integer,
\* most recent (largest primary key) first.
C10_RecentBoundedAndOrdered ==
    recent.status # 0 =>
        /\ recent.status = 200
        /\ Len(recent.rows) <= (IF recent.n >= 1 THEN recent.n ELSE 1)
        /\ \A i \in 1..Len(recent.rows) : \A j \in 1..Len(recent.rows) :
              i < j => IdOf(recent.rows[i]) > IdOf(recent.rows[j])

====
